---------------------------- MODULE Spec2Model ----------------------------
(***************************************************************************)
(* A model of qcp's reliable transport: the concurrent sliding window      *)
(* (src/src/sliding_window.rs) and the sender / receiver engines that      *)
(* share one window each with a background thread                          *)
(* (src/src/bbr_transport.rs).                                             *)
(*                                                                         *)
(* Option<T> is modelled as a sequence of length at most one: None is <<>> *)
(* and Some(v) is <<v>>.  A window is a record holding the fields of       *)
(* SlidingWindow and SlidingWindowData plus the poison flag of its Mutex.  *)
(***************************************************************************)
EXTENDS Integers, Sequences, FiniteSets, TLC

\* ------------------------------------------------------------------ bounds
MaxKey == 3              \* largest key a caller of the bare window uses
MaxChunks == 3           \* chunks the application hands to write_all
MaxSeqNum == 1           \* largest seq_num a datagram of a handshake carries

\* --------------------------------------------------------------- constants
WindowSize == 3          \* capacity N of a window, as in tests::blocking
UsizeBits == 64          \* width of usize on the supported targets

None == <<>>
Some(v) == <<v>>

Threads == {"t1", "t2"}
Builds == {"debug", "release"}

\* 2^e mod n, computed without leaving TLC's integer range, by squaring.
RECURSIVE Pow2Mod(_, _)
Pow2Mod(e, n) ==
    IF e = 0 THEN 1 % n
    ELSE IF e % 2 = 0
    THEN LET h == Pow2Mod(e \div 2, n) IN (h * h) % n
    ELSE (2 * Pow2Mod(e - 1, n)) % n

\* ------------------------------------------------------ SlidingWindow (pure)

\* SlidingWindow::new
new(window_size) ==
    [ items    |-> [i \in 0 .. window_size - 1 |-> None],
      head     |-> 0,
      tail     |-> 1,
      start    |-> 0,
      size     |-> window_size,
      poisoned |-> FALSE ]

\* SlidingWindow::window
window(w) == <<w.start, w.start + w.size>>

\* The slot index insert computes under the lock.  With loc < start the
\* usize subtraction overflows: the release build wraps modulo 2^64 (the
\* debug build panics, see insert_locked).
insert_index(w, loc) ==
    LET x == (loc - w.start) + w.head
    IN  IF x >= 0 THEN x % w.size
        ELSE (Pow2Mod(UsizeBits, w.size) + x) % w.size

\* insert's locked part without the test of the slot: a second value at a
\* live key replaces the first.
insert_locked_overwrite(w, loc, item, bld) ==
    IF w.poisoned
    THEN [w |-> w, res |-> "panic"]
    ELSE IF loc < w.start /\ bld = "debug"
    THEN [w |-> [w EXCEPT !.poisoned = TRUE], res |-> "panic"]
    ELSE LET index == insert_index(w, loc)
         IN  [w |-> [w EXCEPT !.items[index] = Some(item),
                              !.tail = IF index >= w.tail
                                       THEN (index + 1) % w.size
                                       ELSE w.tail],
              res |-> "Ok"]

\* The locked part of SlidingWindow::insert.  Result: the window after the
\* call and "Ok", "Value already set" or "panic".
insert_locked(w, loc, item, bld) ==
    IF w.poisoned
    THEN [w |-> w, res |-> "panic"]
    ELSE IF loc < w.start /\ bld = "debug"
    THEN [w |-> [w EXCEPT !.poisoned = TRUE], res |-> "panic"]
    ELSE LET index == insert_index(w, loc)
         IN  IF w.items[index] # None
             THEN [w |-> w, res |-> "Value already set"]
             ELSE [w |-> [w EXCEPT !.items[index] = Some(item),
                                   !.tail = IF index >= w.tail
                                            THEN (index + 1) % w.size
                                            ELSE w.tail],
                   res |-> "Ok"]

\* A head-advance loop that does not look at tail (cut after two laps).
RECURSIVE advance_no_tail(_, _, _, _, _)
advance_no_tail(items, head, tail, size, n) ==
    LET h == (head + 1) % size
    IN  IF items[h] # None \/ n >= 2 * size
        THEN [head |-> h, n |-> n + 1]
        ELSE advance_no_tail(items, h, tail, size, n + 1)

\* The head-advance loop of inner_remove: head and start step together until
\* head meets tail or an occupied slot.  n counts the iterations.  The loop
\* adds 1 to start per iteration while it holds the lock; the model adds n at
\* once.  The unlocked readers compare a key against start or start + size:
\* a comparison against a value the loop passes through comes out as it does
\* against the value before the loop or the one after it.
RECURSIVE advance(_, _, _, _, _)
advance(items, head, tail, size, n) ==
    LET h == (head + 1) % size
    IN  IF h = tail \/ items[h] # None
        THEN [head |-> h, n |-> n + 1]
        ELSE advance(items, h, tail, size, n + 1)

\* inner_remove with start set to the head's slot index instead of counted
\* up with it.
inner_remove_slot_start(w, relative_loc) ==
    IF w.poisoned
    THEN [w |-> w, res |-> "panic", val |-> None]
    ELSE LET index == relative_loc + w.head
         IN  IF index >= w.size
             THEN [w |-> [w EXCEPT !.poisoned = TRUE], res |-> "panic", val |-> None]
             ELSE IF w.items[index] = None
             THEN [w |-> w, res |-> "None", val |-> None]
             ELSE LET taken == [w.items EXCEPT ![index] = None]
                      adv == advance(taken, w.head, w.tail, w.size, 0)
                  IN  IF index = w.head
                      THEN [w |-> [w EXCEPT !.items = taken,
                                            !.head = adv.head,
                                            !.start = adv.head],
                            res |-> "Some", val |-> w.items[index]]
                      ELSE [w |-> [w EXCEPT !.items = taken],
                            res |-> "Some", val |-> w.items[index]]

\* SlidingWindow::inner_remove.  Result: the window after the call and
\* val = Some(item), None, or res = "panic".
inner_remove(w, relative_loc) ==
    IF w.poisoned
    THEN [w |-> w, res |-> "panic", val |-> None]
    ELSE LET index == relative_loc + w.head
         IN  IF index >= w.size
             THEN [w |-> [w EXCEPT !.poisoned = TRUE], res |-> "panic", val |-> None]
             ELSE IF w.items[index] = None
             THEN [w |-> w, res |-> "None", val |-> None]
             ELSE LET taken == [w.items EXCEPT ![index] = None]
                      adv == advance(taken, w.head, w.tail, w.size, 0)
                  IN  IF index = w.head
                      THEN [w |-> [w EXCEPT !.items = taken,
                                            !.head = adv.head,
                                            !.start = w.start + adv.n],
                            res |-> "Some", val |-> w.items[index]]
                      ELSE [w |-> [w EXCEPT !.items = taken],
                            res |-> "Some", val |-> w.items[index]]

\* SlidingWindow::remove, its unlocked part: the start it loads and the range
\* checks.  "go" means the call goes on to inner_remove(loc - start).
remove_check(w, loc) ==
    IF loc < w.start THEN "loc < start"
    ELSE IF loc >= w.start + w.size THEN "loc >= end"
    ELSE "go"

\* The scan of SlidingWindow::find_first from cur to tail; pred is the set of
\* items that satisfy the predicate.
RECURSIVE find_scan(_, _, _)
find_scan(w, cur, pred) ==
    IF cur = w.tail THEN None
    ELSE IF w.items[cur] # None /\ w.items[cur][1] \in pred
    THEN Some(cur + w.start)
    ELSE find_scan(w, (cur + 1) % w.size, pred)

\* SlidingWindow::find_first
find_first(w, pred) ==
    IF w.poisoned THEN [res |-> "panic", val |-> None]
    ELSE [res |-> "Ok", val |-> find_scan(w, w.head, pred)]

\* ------------------------------------------- threads calling one bare window
VARIABLES
    build,      \* "debug" or "release": overflow checks on or off
    win,        \* the window the threads share
    pc,         \* pc[t]: where thread t is in its current call
    lcl,        \* lcl[t]: the call's arguments and locals
    last,       \* what the call that completed in the last step returned
    popped      \* history, kept by SpecPC: the key under which the value that
                \* pop returned last was inserted; Untracked elsewhere

wvars == <<win, pc, lcl, last, popped>>

\* ---- the state of a connected sender / receiver pair (bbr_transport.rs)
VARIABLES
    swin,       \* Sender.window: items are (Instant, encoded Message)
    rwin,       \* Receiver.window: items are payloads
    seq_num,    \* Sender.seq_num
    npc,        \* npc[p]: where each of the four threads is
    ack,        \* the ACK/retransmit thread's loc and the packet it holds
                \* (history: start0, the window's start when it began)
    ing,        \* the ingest thread's seq_num
    chanSR,     \* the Message datagrams sent so far, by seq_num: the network
                \* delivers each of them any number of times, in any order
                \* (never: it is lost; twice: it is duplicated)
    chanRS,     \* the Acknowledge datagrams sent so far, likewise
    delivered   \* history: the chunks Receiver.read returned, in order

nvars == <<swin, rwin, seq_num, npc, ack, ing, chanSR, chanRS, delivered>>

\* ---- the state of the two handshakes (Sender::connect, Receiver::listen)
VARIABLES
    cpc,        \* where connect is
    ci,         \* connect's loop variable i
    cbuf,       \* connect's buf, decoded
    cres,       \* what connect returned
    csender,    \* the Sender connect built, with its background task
    csent,      \* the datagrams connect sent, in order
    chist,      \* history: what connect's recv_from calls returned, in order
    lpc,        \* where listen is
    lmsg,       \* the first datagram listen received, decoded
    lres,       \* what listen returned
    lreceiver,  \* the Receiver listen built, with its ingest task
    lsent       \* the datagrams listen sent, in order

hvars == <<cpc, ci, cbuf, cres, csender, csent, chist, lpc, lmsg, lres, lreceiver, lsent>>

vars == <<build, wvars, nvars, hvars>>

Keys == 0 .. MaxKey
Vals == {"a", "b"}
Item(k, v) == [key |-> k, val |-> v]
Items == {Item(k, v) : k \in Keys, v \in Vals}

NoLocals == [loc |-> 0, item |-> None, rel |-> 0, waited |-> FALSE]
\* What a call returned: res, with val the item of an insert, remove or pop,
\* found the Option<usize> of find_first and range the pair of window().
NoRet == [op |-> "none", key |-> 0, res |-> "none", val |-> None,
          found |-> None, range |-> <<0, 0>>, waited |-> FALSE]
Ret(op, k, res, val) == [NoRet EXCEPT !.op = op, !.key = k, !.res = res, !.val = val]

After(res) == IF res = "panic" THEN "panicked" ELSE "idle"

Untracked == Some(-1)

\* ---- values of the pair's state
Procs == {"write_all", "acks", "ingest", "read"}
NoAck == [loc |-> 0, pkt |-> None, start0 |-> 0]

\* ---- values of the handshakes' state
MsgTypes == {"Connect", "Acknowledge", "Message"}
Datagram(type, sn, addr) == [type |-> type, seq |-> sn, addr |-> addr]
\* A buffer of zeros decodes to a message of none of the three types.
ZeroBuf == Datagram("Invalid", 0, "none")

\* No handshake under way: the handshakes' variables stay at these values
\* while the other specifications run.
NoHandshake ==
    /\ cpc = "none" /\ ci = 0 /\ cbuf = ZeroBuf /\ cres = "none"
    /\ csender = None /\ csent = <<>> /\ chist = <<>>
    /\ lpc = "none" /\ lmsg = ZeroBuf /\ lres = "none"
    /\ lreceiver = None /\ lsent = <<>>

\* No connection: the pair's variables stay at these values while the threads
\* of Spec, SpecSeq and SpecPC drive the bare window.
NoPair ==
    /\ swin = new(WindowSize)
    /\ rwin = new(WindowSize)
    /\ seq_num = 0
    /\ npc = [p \in Procs |-> "none"]
    /\ ack = NoAck
    /\ ing = 0
    /\ chanSR = {}
    /\ chanRS = {}
    /\ delivered = <<>>

Init ==
    /\ NoPair
    /\ NoHandshake
    /\ build \in Builds
    /\ win = new(WindowSize)
    /\ pc = [t \in Threads |-> "idle"]
    /\ lcl = [t \in Threads |-> NoLocals]
    /\ last = NoRet
    /\ popped = Untracked

\* The key k is live: some slot holds an item inserted under it.
Live(w, k) == \E i \in DOMAIN w.items : w.items[i] # None /\ w.items[i][1].key = k

\* insert, lines 37-44: the unlocked checks of loc against start.  start only
\* grows, so a call whose loc is below start + size at the first load passes
\* the yield loop whatever the other threads do in between: it goes straight
\* to the lock.  The window never looks into a value, so callers pass "a",
\* and "b" only to attempt a second value at a key that is live.
InsertCall(t, k, v) ==
    /\ pc[t] = "idle"
    /\ v = "a" \/ Live(win, k)
    /\ IF k < win.start
       THEN /\ last' = Ret("insert", k, "loc < start", None)
            /\ UNCHANGED <<pc, lcl>>
       ELSE /\ pc' = [pc EXCEPT ![t] = IF k >= win.start + win.size
                                       THEN "insert_wait" ELSE "insert_lock"]
            /\ lcl' = [lcl EXCEPT ![t] = [loc |-> k, item |-> Some(Item(k, v)), rel |-> 0,
                                          waited |-> k >= win.start + win.size]]
            /\ last' = NoRet
    /\ UNCHANGED <<hvars, nvars, build, win, popped>>

\* The yield loop left without looking at start.
InsertWait_no_wait(t) ==
    /\ pc[t] = "insert_wait"
    /\ pc' = [pc EXCEPT ![t] = "insert_lock"]
    /\ last' = NoRet
    /\ UNCHANGED <<hvars, nvars, build, win, lcl, popped>>

\* insert, lines 42-44: the yield loop leaves once loc < start + size.
InsertWait(t) ==
    /\ pc[t] = "insert_wait"
    /\ lcl[t].loc < win.start + win.size
    /\ pc' = [pc EXCEPT ![t] = "insert_lock"]
    /\ last' = NoRet
    /\ UNCHANGED <<hvars, nvars, build, win, lcl, popped>>

\* insert, lines 47-65: the locked part.
InsertLock(t) ==
    /\ pc[t] = "insert_lock"
    /\ LET r == insert_locked(win, lcl[t].loc, lcl[t].item[1], build)
       IN  /\ win' = r.w
           /\ last' = [Ret("insert", lcl[t].loc, r.res, lcl[t].item)
                        EXCEPT !.waited = lcl[t].waited]
           /\ pc' = [pc EXCEPT ![t] = After(r.res)]
    /\ lcl' = [lcl EXCEPT ![t] = NoLocals]
    /\ UNCHANGED <<hvars, nvars, build, popped>>

\* remove, lines 104-110: load start, check the range.
RemoveCall(t, k) ==
    /\ pc[t] = "idle"
    /\ LET c == remove_check(win, k)
       IN  IF c = "go"
           THEN /\ pc' = [pc EXCEPT ![t] = "remove_lock"]
                /\ lcl' = [lcl EXCEPT ![t] = [loc |-> k, item |-> None, rel |-> k - win.start,
                                              waited |-> FALSE]]
                /\ last' = NoRet
           ELSE /\ last' = Ret("remove", k, c, None)
                /\ UNCHANGED <<pc, lcl>>
    /\ UNCHANGED <<hvars, nvars, build, win, popped>>

\* remove, lines 112-115: inner_remove(loc - start) and its match.
RemoveLock(t) ==
    /\ pc[t] = "remove_lock"
    /\ LET r == inner_remove(win, lcl[t].rel)
           res == IF r.res = "None" THEN "Value is none"
                  ELSE IF r.res = "Some" THEN "Ok" ELSE r.res
       IN  /\ win' = r.w
           /\ last' = Ret("remove", lcl[t].loc, res, r.val)
           /\ pc' = [pc EXCEPT ![t] = After(r.res)]
    /\ lcl' = [lcl EXCEPT ![t] = NoLocals]
    /\ UNCHANGED <<hvars, nvars, build, popped>>

\* pop is entered.
PopCall(t) ==
    /\ pc[t] = "idle"
    /\ pc' = [pc EXCEPT ![t] = "pop"]
    /\ last' = NoRet
    /\ UNCHANGED <<hvars, nvars, build, win, lcl, popped>>

\* pop, lines 123-131: the round of the loop that ends it; a round whose
\* inner_remove(0) finds the head slot empty yields and changes nothing.
PopTry(t) ==
    /\ pc[t] = "pop"
    /\ LET r == inner_remove(win, 0)
       IN  /\ r.res # "None"
           /\ win' = r.w
           /\ last' = Ret("pop", win.start, IF r.res = "Some" THEN "Ok" ELSE r.res, r.val)
           /\ pc' = [pc EXCEPT ![t] = After(r.res)]
           /\ popped' = IF r.res = "Some" /\ popped # Untracked
                        THEN Some(r.val[1].key) ELSE popped
    /\ UNCHANGED <<hvars, nvars, build, lcl>>

\* find_first with the predicate "the item was inserted at key j or later".
FindFirst(t, j) ==
    /\ pc[t] = "idle"
    /\ LET r == find_first(win, {i \in Items : i.key >= j})
       IN  /\ last' = [Ret("find_first", j, r.res, None) EXCEPT !.found = r.val]
           /\ pc' = [pc EXCEPT ![t] = After(r.res)]
    /\ UNCHANGED <<hvars, nvars, build, win, lcl, popped>>

\* window()
Window(t) ==
    /\ pc[t] = "idle"
    /\ last' = [Ret("window", 0, "Ok", None) EXCEPT !.range = window(win)]
    /\ UNCHANGED <<hvars, nvars, build, win, pc, lcl, popped>>

Step(t) ==
    \/ \E k \in Keys, v \in Vals : InsertCall(t, k, v)
    \/ InsertWait(t)
    \/ InsertLock(t)
    \/ \E k \in Keys : RemoveCall(t, k)
    \/ RemoveLock(t)
    \/ PopCall(t)
    \/ PopTry(t)
    \/ \E j \in Keys : FindFirst(t, j)
    \/ Window(t)

\* Any number of threads on one window.
Next == \E t \in Threads : Step(t)
Spec == Init /\ [][Next]_vars

\* One thread on one window: calls never overlap.  An insert that has to wait
\* then waits for ever, for no other thread is there to advance start.
NextSeq ==
    \/ \E k \in Keys, v \in Vals : InsertCall("t1", k, v)
    \/ InsertLock("t1")
    \/ \E k \in Keys : RemoveCall("t1", k)
    \/ RemoveLock("t1")
    \/ PopCall("t1")
    \/ PopTry("t1")
    \/ \E j \in Keys : FindFirst("t1", j)
    \/ Window("t1")
SpecSeq == Init /\ [][NextSeq]_vars

\* A producer and a consumer on one window, as the receiver's ingest thread
\* and its reader are: t1 only inserts, t2 only pops.
NextPC ==
    \/ \E k \in Keys, v \in Vals : InsertCall("t1", k, v)
    \/ InsertWait("t1")
    \/ InsertLock("t1")
    \/ PopCall("t2")
    \/ PopTry("t2")
InitPC ==
    /\ NoPair
    /\ NoHandshake
    /\ build \in Builds
    /\ win = new(WindowSize)
    /\ pc = [t \in Threads |-> "idle"]
    /\ lcl = [t \in Threads |-> NoLocals]
    /\ last = NoRet
    /\ popped = None
SpecPC == InitPC /\ [][NextPC]_vars


\* ------------------------------------------- a connected sender and receiver

\* SlidingWindow::remove run in one piece, for a caller that is the only
\* thread moving the window's start.
remove(w, loc) ==
    LET c == remove_check(w, loc)
        r == inner_remove(w, loc - w.start)
    IN  IF c # "go" THEN [w |-> w, res |-> c, val |-> None]
        ELSE [w |-> r.w, val |-> r.val,
              res |-> IF r.res = "None" THEN "Value is none"
                      ELSE IF r.res = "Some" THEN "Ok" ELSE r.res]

\* SlidingWindow::insert run in one piece, for the same kind of caller;
\* "wait" is the yield loop of lines 42-44.
insert(w, loc, item, bld) ==
    IF loc < w.start THEN [w |-> w, res |-> "loc < start"]
    ELSE IF loc >= w.start + w.size THEN [w |-> w, res |-> "wait"]
    ELSE insert_locked(w, loc, item, bld)

Chunks == 0 .. MaxChunks - 1

\* The chunks of a write that is longer by two.
MoreChunks == MaxChunks + 2
\* Reads are counted up to one more than the chunks written.
MaxReads == MaxChunks + 1

\* An entry of the sender's window is (Instant, packet): the packet is known
\* by its seq_num, the Instant by whether more than 3 s have passed since.
Expired == {Item(k, "old") : k \in 0 .. MoreChunks - 1}

\* More than three seconds pass: every entry in the window is now expired.
Elapse(w) ==
    [w EXCEPT !.items = [i \in DOMAIN w.items |->
                            IF w.items[i] = None THEN None
                            ELSE Some(Item(w.items[i][1].key, "old"))]]

InitPair ==
    /\ NoHandshake
    /\ build \in Builds
    /\ win = new(WindowSize)
    /\ pc = [t \in Threads |-> "idle"]
    /\ lcl = [t \in Threads |-> NoLocals]
    /\ last = NoRet
    /\ popped = Untracked
    /\ swin = new(WindowSize)
    /\ rwin = new(WindowSize)
    /\ seq_num = 0
    /\ npc = [p \in Procs |-> CASE p = "write_all" -> "send"
                                [] p = "acks" -> "recv"
                                [] p = "ingest" -> "recv"
                                [] p = "read" -> "pop"]
    /\ ack = NoAck
    /\ ing = 0
    /\ chanSR = {}
    /\ chanRS = {}
    /\ delivered = <<>>

Goto(p, where) == npc' = [npc EXCEPT ![p] = where]

\* write_all, line 287: the chunk's packet goes out before it is recorded.
WriteSend ==
    /\ npc["write_all"] = "send"
    /\ seq_num < MaxChunks
    /\ chanSR' = chanSR \cup {seq_num}
    /\ Goto("write_all", "insert")
    /\ UNCHANGED <<hvars, build, wvars, swin, rwin, seq_num, ack, ing, chanRS, delivered>>

\* write_all, line 288: insert's first load of start (lines 37-40).  The
\* result of insert is dropped; line 289 bumps seq_num.
WriteInsert ==
    /\ npc["write_all"] = "insert"
    /\ IF seq_num < swin.start
       THEN /\ Goto("write_all", "send")
            /\ seq_num' = seq_num + 1
       ELSE /\ Goto("write_all", "lock")
            /\ UNCHANGED seq_num
    /\ UNCHANGED <<hvars, build, wvars, swin, rwin, ack, ing, chanSR, chanRS, delivered>>

\* write_all, line 288: insert's yield loop (lines 42-44) is left and the
\* locked part runs; line 289.  start only grows and the loop writes nothing,
\* so the loop's last load of start is taken at the moment of the lock.
WriteLock ==
    /\ npc["write_all"] = "lock"
    /\ seq_num < swin.start + swin.size
    /\ LET r == insert_locked(swin, seq_num, Item(seq_num, "fresh"), build)
       IN  /\ swin' = r.w
           /\ Goto("write_all", IF r.res = "panic" THEN "panicked" ELSE "send")
           /\ seq_num' = IF r.res = "panic" THEN seq_num ELSE seq_num + 1
    /\ UNCHANGED <<hvars, build, wvars, rwin, ack, ing, chanSR, chanRS, delivered>>

\* The ACK thread, lines 144-157: an Acknowledge arrives and its entry is
\* removed; expect panics on Err.
AckRecv(k) ==
    /\ npc["acks"] = "recv"
    /\ k \in chanRS
    /\ LET r == remove(swin, k)
       IN  /\ swin' = r.w
           /\ Goto("acks", IF r.res = "Ok" THEN "recv" ELSE "panicked")
    /\ UNCHANGED <<hvars, build, wvars, rwin, seq_num, ack, ing, chanSR, chanRS, delivered>>

\* The ACK thread, lines 122-140: recv_from times out, find_first looks for an
\* expired entry, the entry is taken out (expect panics on Err) and its packet
\* sent again.  Only this thread moves start, and an insert of write_all
\* between find_first and remove could as well come before both.
AckTimeout ==
    /\ npc["acks"] = "recv"
    /\ LET f == find_first(swin, Expired)
           r == remove(swin, f.val[1])
       IN  IF f.res = "panic"
           THEN Goto("acks", "panicked") /\ UNCHANGED <<swin, ack, chanSR>>
           ELSE IF f.val = None
           THEN UNCHANGED <<swin, npc, ack, chanSR>>
           ELSE /\ swin' = r.w
                /\ IF r.res = "Ok"
                   THEN /\ Goto("acks", "retx_insert")
                        /\ ack' = [loc |-> f.val[1], pkt |-> r.val, start0 |-> swin.start]
                        /\ chanSR' = chanSR \cup {r.val[1].key}
                   ELSE /\ Goto("acks", "panicked")
                        /\ UNCHANGED <<ack, chanSR>>
    /\ UNCHANGED <<hvars, build, wvars, rwin, seq_num, ing, chanRS, delivered>>

\* The ACK thread, line 143: the packet is inserted again at loc with a new
\* Instant; the result of insert is dropped.
RetxInsert ==
    /\ npc["acks"] = "retx_insert"
    /\ LET r == insert(swin, ack.loc, Item(ack.pkt[1].key, "fresh"), build)
       IN  /\ r.res # "wait"
           /\ swin' = r.w
           /\ Goto("acks", IF r.res = "panic" THEN "panicked" ELSE "recv")
    /\ ack' = NoAck
    /\ UNCHANGED <<hvars, build, wvars, rwin, seq_num, ing, chanSR, chanRS, delivered>>

\* Time passes at the sender: the entries in its window expire.
Tick ==
    /\ Elapse(swin) # swin
    /\ swin' = Elapse(swin)
    /\ UNCHANGED <<hvars, build, wvars, rwin, seq_num, npc, ack, ing, chanSR, chanRS, delivered>>

\* An ingest thread without the test of lines 219-221.
IngestRecv_no_drop(k) ==
    /\ npc["ingest"] = "recv"
    /\ k \in chanSR
    /\ Goto("ingest", "insert") /\ ing' = k
    /\ UNCHANGED <<hvars, build, wvars, swin, rwin, seq_num, ack, chanSR, chanRS, delivered>>

\* The ingest thread, lines 198-221: a Message arrives; one older than the
\* start window() returns is dropped.
IngestRecv(k) ==
    /\ npc["ingest"] = "recv"
    /\ k \in chanSR
    /\ IF k < window(rwin)[1]
       THEN UNCHANGED <<npc, ing>>
       ELSE Goto("ingest", "insert") /\ ing' = k
    /\ UNCHANGED <<hvars, build, wvars, swin, rwin, seq_num, ack, chanSR, chanRS, delivered>>

\* The ingest thread, line 228: insert's first load of start (lines 37-40).
\* The result of insert is dropped, so on Err line 241 still sends the ACK.
IngestInsert ==
    /\ npc["ingest"] = "insert"
    /\ IF ing < rwin.start
       THEN /\ Goto("ingest", "recv")
            /\ chanRS' = chanRS \cup {ing}
            /\ ing' = 0
       ELSE /\ Goto("ingest", "lock")
            /\ UNCHANGED <<chanRS, ing>>
    /\ UNCHANGED <<hvars, build, wvars, swin, rwin, seq_num, ack, chanSR, delivered>>

\* The ingest thread, line 228: insert's yield loop (lines 42-44) is left and
\* the locked part runs; lines 230-241: the ACK is sent whatever insert
\* returned.
IngestLock ==
    /\ npc["ingest"] = "lock"
    /\ ing < rwin.start + rwin.size
    /\ LET r == insert_locked(rwin, ing, Item(ing, "a"), build)
       IN  /\ rwin' = r.w
           /\ IF r.res = "panic"
              THEN Goto("ingest", "panicked") /\ UNCHANGED chanRS
              ELSE Goto("ingest", "recv") /\ chanRS' = chanRS \cup {ing}
    /\ ing' = 0
    /\ UNCHANGED <<hvars, build, wvars, swin, seq_num, ack, chanSR, delivered>>

\* Receiver::read, lines 299-307: pop returns once the head slot is occupied.
Read ==
    /\ npc["read"] = "pop"
    /\ Len(delivered) < MaxReads
    /\ LET r == inner_remove(rwin, 0)
       IN  /\ r.res # "None"
           /\ rwin' = r.w
           /\ IF r.res = "Some"
              THEN delivered' = Append(delivered, r.val[1].key) /\ UNCHANGED npc
              ELSE Goto("read", "panicked") /\ UNCHANGED delivered
    /\ UNCHANGED <<hvars, build, wvars, swin, seq_num, ack, ing, chanSR, chanRS>>

NextPair ==
    \/ WriteSend
    \/ WriteInsert
    \/ WriteLock
    \/ \E k \in Chunks : AckRecv(k)
    \/ AckTimeout
    \/ RetxInsert
    \/ Tick
    \/ \E k \in Chunks : IngestRecv(k)
    \/ IngestInsert
    \/ IngestLock
    \/ Read

\* A sender and a receiver connected over a network that loses, reorders and
\* duplicates datagrams: a datagram that was sent is received at any later
\* time, any number of times.
SpecPair == InitPair /\ [][NextPair]_vars

\* ------------------------------------------------------- claims on the pair

\* C1 (end-to-end delivery, no gaps): the chunks read return are the chunks
\* written, in order, each once: the i-th read returns chunk i - 1.
C1_InOrderDelivery ==
    \A i \in 1 .. Len(delivered) : delivered[i] = i - 1

\* The threads run and the network is fair: each thread that can take a step
\* takes one, time passes, and a datagram that was sent is received.
FairPair ==
    /\ SpecPair
    /\ WF_vars(WriteSend) /\ WF_vars(WriteInsert) /\ WF_vars(WriteLock)
    /\ WF_vars(AckTimeout) /\ WF_vars(RetxInsert) /\ WF_vars(Tick)
    /\ WF_vars(IngestInsert) /\ WF_vars(IngestLock) /\ WF_vars(Read)
    /\ \A k \in Chunks : WF_vars(AckRecv(k)) /\ WF_vars(IngestRecv(k))

WindowEmpty(w) == \A i \in DOMAIN w.items : w.items[i] = None

\* C2 (retransmit liveness): with the threads running, the network fair and
\* the receiver's application reading (its read never ends in a panic), the
\* input is written out and the sender's window becomes empty.
C2_RetransmitLiveness ==
    \/ <>(seq_num = MaxChunks /\ WindowEmpty(swin) /\ ack.pkt = None)
    \/ <>(npc["read"] = "panicked")

\* C3 (retransmit keeps the entry pinned): when the ACK thread has put back
\* the entry it found at key loc, the window holds at key loc the packet it
\* took out, and start is where it was when the retransmit began.
C3_RetransmitPinned ==
    [][(npc["acks"] = "retx_insert" /\ npc'["acks"] # "retx_insert") =>
          /\ ack.pkt[1].key = ack.loc
          /\ Live(swin', ack.loc)
          /\ swin'.start = ack.start0]_vars

\* C4 (idempotent ACK handling): an Acknowledge(k) that arrives when the
\* entry written at k has left the window is tolerated: the ACK thread goes
\* on receiving and the sender's window is as it was.
C4_IdempotentAck ==
    [][\A k \in Chunks :
          (AckRecv(k) /\ k < seq_num /\ ~Live(swin, k))
             => (npc'["acks"] = "recv" /\ swin' = swin)]_vars

\* ------------------------------------------------------ claims on the window

\* A call completed in the step (last is cleared by every other step).
Completed(op) == last' # last /\ last'.op = op

\* C5 (W4, pop ordering): the keys of the values successive pops return are
\* strictly increasing, and the first of them is key 0.
C5_PopOrdering ==
    [][(Completed("pop") /\ last'.res = "Ok") =>
          IF popped = None THEN last'.val[1].key = 0
          ELSE last'.val[1].key > popped[1]]_vars

C8_MonotoneStart ==
    [][/\ win'.start >= win.start
       /\ Completed("window")
             => last'.range = <<win.start, win.start + WindowSize>>]_vars

\* C8 happens: window() is called after the window has slid.
C8_Witness == last.op = "window" /\ win.start >= 2

\* C9 (key/value correspondence under concurrency): a remove(k) that
\* succeeds returns the value that was inserted at key k.
C9_RemoveReturnsOwnKey ==
    (last.op = "remove" /\ last.res = "Ok") => last.val[1].key = last.key

\* The slot the window's addressing gives key k.
SlotOf(w, k) == ((k - w.start) + w.head) % w.size

\* C10 (window errors leave the state unchanged): insert below start fails,
\* remove outside [start, start + N) fails, remove of an in-range key whose
\* slot is empty fails with "Value is none"; none of them changes the window.
C10_ErrorsLeaveState ==
    [][/\ \A t \in Threads :
            (pc[t] = "remove_lock" /\ pc'[t] # "remove_lock"
                /\ win.items[SlotOf(win, lcl[t].loc)] = None)
               => (last'.res = "Value is none" /\ win' = win)
       /\ (Completed("insert") /\ last'.key < win.start)
               => (last'.res = "loc < start" /\ win' = win)
       /\ (Completed("remove")
                /\ (last'.key < win.start \/ last'.key >= win.start + win.size))
               => (last'.res \in {"loc < start", "loc >= end"} /\ win' = win)]_vars

\* C11 (W5, pop head semantics): a pop that returns found the slot of key
\* start occupied and returns the value inserted at key start, the lowest
\* live key; a pop that finds that slot empty does not return and leaves the
\* window as it is.
C11_PopHead ==
    [][/\ (Completed("pop") /\ last'.res = "Ok")
             => /\ win.items[win.head] = last'.val
                /\ last'.val[1].key = win.start
                /\ \A k \in Keys : Live(win, k) => k >= win.start
       /\ \A t \in Threads :
            (pc[t] = "pop" /\ win.items[win.head] = None /\ pc'[t] # "pop")
               => (last'.res # "Ok" /\ win' = win)]_vars

\* ------------------------------------------------------------ the handshakes

\* What a recv_from may hand over besides the peer's datagrams: any message
\* from any other address.
Foreign == {Datagram(t, n, "other") : t \in MsgTypes, n \in 0 .. MaxSeqNum}

Range(q) == {q[i] : i \in DOMAIN q}

\* connect, line 85: the attempt with index i is the last one.
\* A loop that gives up one attempt later.
last_attempt_late(i) == i >= 3

last_attempt(i) == i >= 2

\* connect, lines 97-103: the reply is the Acknowledge of the Connect.
\* A check of the reply's type only.
reply_error_type_only(m) ==
    IF m.type # "Acknowledge" THEN "Got other message type than Acknowledge on Connect"
    ELSE "none"

reply_error(m) ==
    IF m.type # "Acknowledge" THEN "Got other message type than Acknowledge on Connect"
    ELSE IF m.seq # 0 THEN "Acknowledged wrong sequence number"
    ELSE "none"

\* listen, lines 181-185: the Acknowledge for the Connect m and where it goes.
\* An Acknowledge that always carries sequence number 0.
connect_ack_zero(m) == Datagram("Acknowledge", 0, m.addr)

connect_ack(m) == Datagram("Acknowledge", m.seq, m.addr)

InitHandshake ==
    /\ NoPair
    /\ build \in Builds
    /\ win = new(WindowSize)
    /\ pc = [t \in Threads |-> "idle"]
    /\ lcl = [t \in Threads |-> NoLocals]
    /\ last = NoRet
    /\ popped = Untracked
    /\ cpc = "setup" /\ ci = 0 /\ cbuf = ZeroBuf /\ cres = "none"
    /\ csender = None /\ csent = <<>> /\ chist = <<>>
    /\ lpc = "setup" /\ lmsg = ZeroBuf /\ lres = "none"
    /\ lreceiver = None /\ lsent = <<>>

lsvars == <<lpc, lmsg, lres, lreceiver, lsent>>
csvars == <<cpc, ci, cbuf, cres, csender, csent, chist>>

\* connect, lines 59-60: the socket's timeouts are set; `?` returns an error.
ConnectSetup(ok) ==
    /\ cpc = "setup"
    /\ IF ok THEN cpc' = "send" /\ UNCHANGED cres
       ELSE cpc' = "returned" /\ cres' = "io error"
    /\ UNCHANGED <<build, wvars, nvars, lsvars, ci, cbuf, csender, csent, chist>>

\* connect, lines 62-71: Connect(0) is sent; expect panics if send_to fails.
ConnectSend(ok) ==
    /\ cpc = "send"
    /\ IF ok THEN /\ cpc' = "recv"
                  /\ csent' = Append(csent, Datagram("Connect", 0, "receiver"))
       ELSE cpc' = "panicked" /\ UNCHANGED csent
    /\ UNCHANGED <<build, wvars, nvars, lsvars, ci, cbuf, cres, csender, chist>>

\* connect, lines 75-91: one round of the loop.  recv_from returns a datagram
\* (the source address is not looked at), WouldBlock or another error.
ConnectRecv(r) ==
    /\ cpc = "recv"
    /\ chist' = Append(chist, r.err)
    /\ IF r.err = "io error"
       THEN cpc' = "returned" /\ cres' = "io error" /\ UNCHANGED <<ci, cbuf>>
       ELSE IF r.err = "WouldBlock"
       THEN IF last_attempt(ci)
            THEN /\ cpc' = "returned"
                 /\ cres' = "Did not get Acknowledge on Connect"
                 /\ UNCHANGED <<ci, cbuf>>
            ELSE /\ ci' = ci + 1
                 /\ cpc' = IF ci + 1 < 3 THEN "recv" ELSE "decode"
                 /\ UNCHANGED <<cres, cbuf>>
       ELSE cpc' = "decode" /\ cbuf' = r.msg /\ UNCHANGED <<ci, cres>>
    /\ UNCHANGED <<build, wvars, nvars, lsvars, csender, csent>>

\* connect, lines 95-161: the reply is checked; then the window is made, the
\* socket cloned (`?` returns an error), the ACK thread spawned and the Sender
\* returned.
ConnectDecode(cloned) ==
    /\ cpc = "decode"
    /\ cpc' = "returned"
    /\ IF reply_error(cbuf) # "none"
       THEN cres' = reply_error(cbuf) /\ UNCHANGED csender
       ELSE IF ~cloned
       THEN cres' = "io error" /\ UNCHANGED csender
       ELSE /\ cres' = "Ok"
            /\ csender' = Some([seq_num |-> 0, window |-> new(WindowSize),
                                remote_addr |-> "receiver", task |-> TRUE])
    /\ UNCHANGED <<build, wvars, nvars, lsvars, ci, cbuf, csent, chist>>

\* The datagrams recv_from may return at address me: those sent to me by the
\* endpoint at address peer, and the foreign ones.
Arriving(sent, me, peer) ==
    {Datagram(d.type, d.seq, peer) : d \in {x \in Range(sent) : x.addr = me}} \cup Foreign

\* The outcomes of one recv_from: an error of one of the kinds errs, or a
\* datagram of avail written into the buffer.
RecvResults(errs, avail) ==
    {[err |-> e, msg |-> ZeroBuf] : e \in errs} \cup {[err |-> "Ok", msg |-> d] : d \in avail}

\* listen, line 169: the write timeout is set; `?` returns an error.
ListenSetup(ok) ==
    /\ lpc = "setup"
    /\ IF ok THEN lpc' = "recv" /\ UNCHANGED lres
       ELSE lpc' = "returned" /\ lres' = "io error"
    /\ UNCHANGED <<build, wvars, nvars, csvars, lmsg, lreceiver, lsent>>

\* listen, lines 172-178: the first datagram; `?` returns recv_from's error.
ListenRecv(r) ==
    /\ lpc = "recv"
    /\ IF r.err = "io error"
       THEN lpc' = "returned" /\ lres' = "io error" /\ UNCHANGED lmsg
       ELSE /\ lmsg' = r.msg
            /\ IF r.msg.type # "Connect"
               THEN lpc' = "returned" /\ lres' = "Got non-connect message"
               ELSE lpc' = "ack" /\ UNCHANGED lres
    /\ UNCHANGED <<build, wvars, nvars, csvars, lreceiver, lsent>>

\* listen, lines 181-185: the Acknowledge goes to the datagram's source; the
\* result of send_to is dropped.
ListenAck ==
    /\ lpc = "ack"
    /\ lsent' = Append(lsent, connect_ack(lmsg))
    /\ lpc' = "spawn"
    /\ UNCHANGED <<build, wvars, nvars, csvars, lmsg, lres, lreceiver>>

\* listen, lines 187-245: the window is made, the socket cloned (`?` returns
\* an error), the ingest thread spawned and the Receiver returned.
ListenSpawn(cloned) ==
    /\ lpc = "spawn"
    /\ lpc' = "returned"
    /\ IF cloned
       THEN /\ lres' = "Ok"
            /\ lreceiver' = Some([remote_addr |-> lmsg.addr, window |-> new(WindowSize),
                                  task |-> TRUE])
       ELSE lres' = "io error" /\ UNCHANGED lreceiver
    /\ UNCHANGED <<build, wvars, nvars, csvars, lmsg, lsent>>

NextHandshake ==
    \/ \E ok \in BOOLEAN : ConnectSetup(ok)
    \/ \E ok \in BOOLEAN : ConnectSend(ok)
    \/ \E r \in RecvResults({"WouldBlock", "io error"},
                              Arriving(lsent, "sender", "receiver")) : ConnectRecv(r)
    \/ \E cloned \in BOOLEAN : ConnectDecode(cloned)
    \/ \E ok \in BOOLEAN : ListenSetup(ok)
    \/ \E r \in RecvResults({"io error"}, Arriving(csent, "receiver", "sender")) :
          ListenRecv(r)
    \/ ListenAck
    \/ \E cloned \in BOOLEAN : ListenSpawn(cloned)

\* Sender::connect and Receiver::listen, each run once, on a network that
\* also carries datagrams of other endpoints.
SpecHandshake == InitHandshake /\ [][NextHandshake]_vars

\* C12 (handshake timeout): connect sends one Connect(0) and nothing else,
\* before any receive attempt; it makes at most three receive attempts; three
\* WouldBlocks make it return the timeout error; any other I/O error on an
\* attempt makes it return that error with no further attempt; and whenever
\* connect fails no Sender (window, background task) exists.
C12_HandshakeTimeout ==
    /\ Len(csent) <= 1
    /\ \A d \in Range(csent) : d = Datagram("Connect", 0, "receiver")
    /\ chist # <<>> => Len(csent) = 1
    /\ Len(chist) <= 3
    /\ (Len(chist) = 3 /\ \A i \in 1 .. 3 : chist[i] = "WouldBlock")
          => (cpc = "returned" /\ cres = "Did not get Acknowledge on Connect")
    /\ \A i \in 1 .. Len(chist) :
          chist[i] = "io error" => (i = Len(chist) /\ cpc = "returned" /\ cres = "io error")
    /\ (cpc \in {"returned", "panicked"} /\ cres # "Ok") => csender = None

C12_Witness ==
    /\ cpc = "returned"
    /\ chist = <<"WouldBlock", "WouldBlock", "WouldBlock">>
    /\ cres = "Did not get Acknowledge on Connect"
    /\ csender = None

\* The last receive attempt of connect returned a datagram.
GotReply == chist # <<>> /\ chist[Len(chist)] = "Ok"

\* C13 (handshake rejection): a Sender exists only if the reply decoded as
\* Acknowledge with seq_num 0, and then it has seq_num 0 and a background
\* task; once connect has returned after a reply of another type or another
\* seq_num, its result is an error and no Sender (hence no task) exists.
C13_HandshakeRejection ==
    /\ csender # None
          => /\ GotReply /\ cbuf.type = "Acknowledge" /\ cbuf.seq = 0
             /\ cres = "Ok" /\ csender[1].seq_num = 0 /\ csender[1].task
    /\ cres = "Ok" => csender # None
    /\ (cpc = "returned" /\ GotReply /\ ~(cbuf.type = "Acknowledge" /\ cbuf.seq = 0))
          => (cres \notin {"Ok", "none"} /\ csender = None)

C13_Witness ==
    /\ cpc = "returned"
    /\ GotReply /\ cbuf.type = "Acknowledge" /\ cbuf.seq # 0
    /\ cres = "Acknowledged wrong sequence number"
    /\ csender = None

\* C14 (receiver handshake): listen sends at most one datagram; once the first
\* datagram decoded as Connect, the Acknowledge with the same seq_num goes to
\* that datagram's source before the ingest thread is spawned (position
\* "spawn" and every Receiver come after the send), and the Receiver's peer is
\* that source; a first datagram of another type makes listen return an
\* error with nothing sent and no Receiver.
C14_ReceiverHandshake ==
    /\ Len(lsent) <= 1
    /\ lpc = "ack" => (lmsg.type = "Connect" /\ lsent = <<>> /\ lreceiver = None)
    /\ (lpc = "spawn" \/ lreceiver # None \/ (lpc = "returned" /\ lmsg.type = "Connect"))
          => /\ lmsg.type = "Connect"
             /\ lsent = <<Datagram("Acknowledge", lmsg.seq, lmsg.addr)>>
    /\ lpc = "spawn" => lreceiver = None
    /\ lreceiver # None
          => (lres = "Ok" /\ lreceiver[1].remote_addr = lmsg.addr /\ lreceiver[1].task)
    /\ (lmsg # ZeroBuf /\ lmsg.type # "Connect")
          => /\ lpc = "returned" /\ lres = "Got non-connect message"
             /\ lsent = <<>> /\ lreceiver = None

C14_Witness ==
    /\ lreceiver # None
    /\ lmsg.type = "Connect" /\ lmsg.seq # 0
    /\ lsent = <<Datagram("Acknowledge", lmsg.seq, lmsg.addr)>>

\* C15 (sender sequence numbering): when write_all sends a chunk, the chunks
\* sent before it are exactly those numbered 0 .. seq_num - 1 and the packet
\* carries seq_num; when write_all moves on to the next chunk, seq_num has
\* grown by exactly one and the window holds the chunk's entry under the
\* number it was sent with.
C15_SequenceNumbering ==
    [][/\ (npc["write_all"] = "send" /\ npc'["write_all"] = "insert")
             => /\ chanSR = 0 .. seq_num - 1
                /\ chanSR' = chanSR \cup {seq_num}
                /\ seq_num' = seq_num
       /\ seq_num' # seq_num
             => /\ seq_num' = seq_num + 1
                /\ seq_num \in chanSR
                /\ Live(swin', seq_num)]_vars

\* C16 (ACK implies buffered): whenever the ingest thread sends
\* Acknowledge(k), the receiver's window holds a live value under key k or
\* read has already returned chunk k.
C16_AckImpliesBuffered ==
    [][(npc["ingest"] \in {"insert", "lock"} /\ npc'["ingest"] = "recv")
          => /\ ing \in chanRS'
             /\ Live(rwin', ing) \/ \E i \in 1 .. Len(delivered') : delivered'[i] = ing]_vars

\* The ingest thread, lines 199-211: recv_from returns an error, or a datagram
\* that is not a Message (a repeated Connect, say); the thread panics, holding
\* no lock.
IngestFatal ==
    /\ npc["ingest"] = "recv"
    /\ Goto("ingest", "panicked")
    /\ UNCHANGED <<hvars, build, wvars, swin, rwin, seq_num, ack, ing, chanSR, chanRS,
                   delivered>>

NextFatal ==
    \/ NextPair
    \/ IngestFatal

\* The pair on a network on which the receiver's socket may also fail or
\* hand the ingest thread a datagram that is not a Message.
SpecFatal == InitPair /\ [][NextFatal]_vars

\* The fairness of FairPair; the fault itself is not required to happen.
FairFatal ==
    /\ SpecFatal
    /\ WF_vars(WriteSend) /\ WF_vars(WriteInsert) /\ WF_vars(WriteLock)
    /\ WF_vars(AckTimeout) /\ WF_vars(RetxInsert) /\ WF_vars(Tick)
    /\ WF_vars(IngestInsert) /\ WF_vars(IngestLock) /\ WF_vars(Read)
    /\ \A k \in Chunks : WF_vars(AckRecv(k)) /\ WF_vars(IngestRecv(k))

\* C17 (fatal background error is observable): once the ingest thread has
\* terminated, the application's read, called again and again, comes to
\* report a failure (MaxReads successful reads end the application's run).
C17_FatalObservable ==
    (npc["ingest"] = "panicked") ~> (npc["read"] = "panicked" \/ Len(delivered) = MaxReads)

\* The ingest thread, lines 199-241, on a Message(k) that comes from an address
\* other than the peer's: line 205 drops the source address (let (amt, _)), so
\* the datagram is handled as the peer's are, and the ACK goes to the peer.
\* The iteration is taken in one step, which leaves out nothing a foreign
\* datagram can do when the other threads are slow; a k beyond the window
\* (insert would wait) is not drawn.
IngestForeign(k) ==
    /\ npc["ingest"] = "recv"
    /\ LET r == insert(rwin, k, Item(k, "foreign"), build)
       IN  IF k < window(rwin)[1]
           THEN UNCHANGED <<npc, rwin, chanRS>>
           ELSE /\ r.res # "wait"
                /\ rwin' = r.w
                /\ IF r.res = "panic"
                   THEN Goto("ingest", "panicked") /\ UNCHANGED chanRS
                   ELSE chanRS' = chanRS \cup {k} /\ UNCHANGED npc
    /\ UNCHANGED <<hvars, build, wvars, swin, seq_num, ack, ing, chanSR, delivered>>

NextForeign ==
    \/ NextPair
    \/ \E k \in Chunks : IngestForeign(k)

\* The pair on a network on which a third endpoint sends Messages to the
\* receiver's socket.
SpecForeign == InitPair /\ [][NextForeign]_vars

\* C18 (peer pinning): a step in which the ingest thread handles a datagram
\* of a foreign address changes neither the receiver's window nor what it
\* has acknowledged.
C18_PeerPinning ==
    [][(\E k \in Chunks : IngestForeign(k)) => (rwin' = rwin /\ chanRS' = chanRS)]_vars

\* C19 (start advancement rule): a remove that returns a value for a key other
\* than start leaves start (and head) where they were; a remove that returns
\* the value of key start moves start and head forward together by at least
\* one, no key passed over is live, and the new head slot is occupied or is
\* the tail.
C19_StartAdvancement ==
    [][(Completed("remove") /\ last'.res = "Ok")
          => IF last'.key # win.start
             THEN win'.start = win.start /\ win'.head = win.head
             ELSE /\ win'.start > win.start
                  /\ win'.head = (win.head + (win'.start - win.start)) % win.size
                  /\ \A k \in win.start .. win'.start - 1 : ~Live(win', k)
                  /\ win'.items[win'.head] # None \/ win'.head = win'.tail]_vars

\* C20 (ring wrap in remove): a remove of a key k in [start, start+N) that
\* reaches inner_remove on a window that is not poisoned does not panic: it
\* returns the value in the slot ((k - start) + head) mod N, the slot insert
\* uses, or "Value is none" when that slot is empty.
C20_RingWrapRemove ==
    [][\A t \in Threads :
          (/\ pc[t] = "remove_lock" /\ pc'[t] # "remove_lock"
           /\ ~win.poisoned
           /\ lcl[t].loc \in win.start .. win.start + win.size - 1)
             => /\ last'.res \in {"Ok", "Value is none"}
                /\ last'.val = win.items[SlotOf(win, lcl[t].loc)]
                /\ last'.res = "Ok" <=> win.items[SlotOf(win, lcl[t].loc)] # None]_vars

\* The keys of the live entries of w whose value satisfies pred.
Matching(w, pred) ==
    {w.items[i][1].key : i \in {s \in DOMAIN w.items : w.items[s] # None /\ w.items[s][1] \in pred}}

\* C21 (find_first correctness): a find_first that returns gives Some(k) with
\* k the lowest key of a live entry that satisfies the predicate, and None
\* only when no live entry satisfies it.
C21_FindFirst ==
    [][(Completed("find_first") /\ last'.res = "Ok")
          => LET m == Matching(win, {i \in Items : i.key >= last'.key})
             IN  IF m = {} THEN last'.found = None
                 ELSE last'.found = Some(CHOOSE k \in m : \A o \in m : k <= o)]_vars

\* The results of insert that report a key below start or an occupied slot.
WindowErrors == {"loc < start", "Value already set"}

\* C22 (no window errors on the hot paths): the insert calls of write_all
\* (line 288), of the retransmit step (line 143) and of the ingest thread
\* (line 228) return neither "loc < start" nor "Value already set".
C22_NoWindowErrors ==
    [][/\ (npc["write_all"] = "insert" /\ npc'["write_all"] # "insert")
             => seq_num >= swin.start
       /\ (npc["write_all"] = "lock" /\ npc'["write_all"] # "lock")
             => insert_locked(swin, seq_num, Item(seq_num, "fresh"), build).res \notin WindowErrors
       /\ (npc["acks"] = "retx_insert" /\ npc'["acks"] # "retx_insert")
             => insert(swin, ack.loc, Item(ack.pkt[1].key, "fresh"), build).res \notin WindowErrors
       /\ (npc["ingest"] = "insert" /\ npc'["ingest"] # "insert")
             => ing >= rwin.start
       /\ (npc["ingest"] = "lock" /\ npc'["ingest"] # "lock")
             => insert_locked(rwin, ing, Item(ing, "a"), build).res \notin WindowErrors]_vars

\* C23 (selective ACK frame): when the ACK thread handles Acknowledge(k) for
\* a key k live in the sender's window, the thread goes on, the entry of k
\* is gone, every other slot is as it was (packet and time), and start has
\* moved only over keys that are no longer live.
C23_SelectiveAckFrame ==
    [][\A k \in 0 .. MoreChunks - 1 :
          (AckRecv(k) /\ Live(swin, k))
             => /\ npc'["acks"] = "recv"
                /\ ~Live(swin', k)
                /\ \A i \in DOMAIN swin.items :
                      (swin.items[i] # None /\ swin.items[i][1].key # k)
                         => swin'.items[i] = swin.items[i]
                /\ swin'.start >= swin.start
                /\ \A j \in swin.start .. swin'.start - 1 : ~Live(swin', j)]_vars

\* --------------------------------------------------------------- longer runs

\* write_all, line 287, for the longer write.
WriteSendMore ==
    /\ npc["write_all"] = "send"
    /\ seq_num < MoreChunks
    /\ chanSR' = chanSR \cup {seq_num}
    /\ Goto("write_all", "insert")
    /\ UNCHANGED <<hvars, build, wvars, swin, rwin, seq_num, ack, ing, chanRS, delivered>>

\* Receiver::read, lines 299-307, for the longer write.
ReadMore ==
    /\ npc["read"] = "pop"
    /\ Len(delivered) < MoreChunks + 1
    /\ LET r == inner_remove(rwin, 0)
       IN  /\ r.res # "None"
           /\ rwin' = r.w
           /\ IF r.res = "Some"
              THEN delivered' = Append(delivered, r.val[1].key) /\ UNCHANGED npc
              ELSE Goto("read", "panicked") /\ UNCHANGED delivered
    /\ UNCHANGED <<hvars, build, wvars, swin, seq_num, ack, ing, chanSR, chanRS>>

NextMore ==
    \/ WriteSendMore
    \/ WriteInsert
    \/ WriteLock
    \/ \E k \in 0 .. MoreChunks - 1 : AckRecv(k)
    \/ AckTimeout
    \/ RetxInsert
    \/ Tick
    \/ \E k \in 0 .. MoreChunks - 1 : IngestRecv(k)
    \/ IngestInsert
    \/ IngestLock
    \/ ReadMore

\* The pair on the same network, for a write of MoreChunks chunks.
SpecMore == InitPair /\ [][NextMore]_vars

\* C27 (start never overshoots the inserted keys): write_all inserts the keys
\* 0, 1, 2, ... in order, so the largest key inserted into the sender's
\* window is below seq_num; start is at most one above it, and is 0 while
\* nothing has been inserted.
C27_StartNeverOvershoots == swin.start <= seq_num

\* C24 (old-message drop): a step in which the ingest thread receives a
\* Message(k) with k below the start of its window changes nothing: not the
\* window, not what was delivered or acknowledged, and the thread is back at
\* recv_from; the thread goes on to insert only with a key that is not
\* below start.
C24_OldMessageDrop ==
    [][/\ \A k \in Chunks :
            (IngestRecv(k) /\ k < rwin.start)
               => /\ rwin' = rwin /\ delivered' = delivered /\ chanRS' = chanRS
                  /\ npc'["ingest"] = "recv"
       /\ (npc["ingest"] = "recv" /\ npc'["ingest"] = "insert")
            => (ing' >= rwin.start /\ rwin' = rwin)]_vars

\* A Message that was delivered to the application arrives again.
C24_Witness ==
    /\ npc["ingest"] = "recv"
    /\ \E k \in chanSR : k < rwin.start /\ \E i \in 1 .. Len(delivered) : delivered[i] = k

\* ------------------------------------------------------ windows of each size

\* The capacities 2 .. WindowSize + 1.
Sizes == 2 .. WindowSize + 1

InitSizes ==
    /\ NoPair
    /\ NoHandshake
    /\ build \in Builds
    /\ \E n \in Sizes : win = new(n)
    /\ pc = [t \in Threads |-> "idle"]
    /\ lcl = [t \in Threads |-> NoLocals]
    /\ last = NoRet
    /\ popped = Untracked

\* One thread calling a window of any of the capacities.
SpecSizes == InitSizes /\ [][NextSeq]_vars

\* C25 (head-advance termination): a remove or pop that returns a value
\* returns after its head-advance loop has added to start (and so to head)
\* at most N times.
C25_HeadAdvanceTerminates ==
    [][((Completed("remove") \/ Completed("pop")) /\ last'.res = "Ok")
          => /\ win'.start - win.start \in 0 .. win.size
             /\ win'.head = (win.head + (win'.start - win.start)) % win.size]_vars

\* A remove of the head entry whose loop ran N times: a whole lap.
C25_Witness ==
    /\ last.op = "remove" /\ last.key = 0 /\ last.res = "Ok"
    /\ win.start = win.size

\* C26 (no ACK-before-record race): when the ACK thread receives
\* Acknowledge(k) for the chunk k that write_all has sent and not yet taken
\* past its insert, the entry of k is in the window, the remove succeeds (the
\* thread goes on) and the entry is gone.
C26_NoAckBeforeRecord ==
    [][\A k \in Chunks :
          (AckRecv(k) /\ k = seq_num /\ npc["write_all"] \in {"insert", "lock"})
             => (Live(swin, k) /\ npc'["acks"] = "recv" /\ ~Live(swin', k))]_vars

\* The slots a scan from head up to, and excluding, tail visits.
Scanned(w) == {(w.head + d) % w.size : d \in 0 .. ((w.tail - w.head + w.size) % w.size) - 1}

\* C28 (tail marker covers all live entries): every occupied slot is one that
\* a scan from head to tail visits.
C28_TailCoversLive ==
    \A i \in DOMAIN win.items : win.items[i] # None => i \in Scanned(win)

\* head is start mod N, and every live entry is in the slot its key mod N
\* names.
Lockstep(w) ==
    /\ w.head = w.start % w.size
    /\ \A i \in DOMAIN w.items : w.items[i] # None => i = w.items[i][1].key % w.size

\* C29 (head/start lockstep): in every state head is start mod N and the live
\* entries are in the slots their keys mod N name; and the slot an insert or
\* a remove of key k addresses under the lock is k mod N.
C29_HeadStartLockstep ==
    /\ []Lockstep(win)
    /\ [][\A t \in Threads :
            /\ (pc[t] = "insert_lock" /\ pc'[t] # "insert_lock" /\ ~win.poisoned)
                  => insert_index(win, lcl[t].loc) = lcl[t].loc % win.size
            /\ (pc[t] = "remove_lock" /\ pc'[t] # "remove_lock" /\ ~win.poisoned)
                  => lcl[t].rel + win.head = lcl[t].loc % win.size]_vars

=============================================================================
